---- MODULE Spec2Model ----
(***************************************************************************)
(* Model of spongebob_cli.py: the conversation history kept by main(), the *)
(* window computed by truncate_history, the completion call call_api, the  *)
(* transcript written by save_transcript, and the command loop of main().  *)
(*                                                                         *)
(* A Python str is modelled as a tuple of one-character strings, so that   *)
(* strip, startswith, split, lower, capitalize and the f-strings of the    *)
(* source are computed character by character.                             *)
(***************************************************************************)
EXTENDS Integers, Sequences, FiniteSets, TLC

\* ------------------------------------------------------------------ bounds

\* Chat turns (network requests) a session run may make.
MaxRequests == 2
\* Non-system messages of a history handed to truncate_history on its own.
MaxBody == 5
\* Largest value of max_pairs handed to truncate_history on its own (the
\* smallest is -MaxPairs).
MaxPairs == 2
\* Non-system messages of a store handed to save_transcript on its own.
MaxSaved == 3
\* Characters of a line handed to the dispatch of the loop on its own.
MaxLine == 3

\* ------------------------------------------------------------ str helpers

\* Python's None, kept apart from every str (no str holds this element).
None == <<"<None>">>

\* str.isspace() for one character.
IsSpace(c) == c \in {" ", "\t", "\n"}

\* The characters str.lower() / str.upper() change, pairwise.
UpperChars == <<"A", "B", "C", "D", "E", "F", "G", "H", "I", "J", "K", "L", "M",
                "N", "O", "P", "Q", "R", "S", "T", "U", "V", "W", "X", "Y", "Z">>
LowerChars == <<"a", "b", "c", "d", "e", "f", "g", "h", "i", "j", "k", "l", "m",
                "n", "o", "p", "q", "r", "s", "t", "u", "v", "w", "x", "y", "z">>

LowerChar(c) ==
    IF \E i \in 1..Len(UpperChars) : UpperChars[i] = c
    THEN LowerChars[CHOOSE i \in 1..Len(UpperChars) : UpperChars[i] = c]
    ELSE c

UpperChar(c) ==
    IF \E i \in 1..Len(LowerChars) : LowerChars[i] = c
    THEN UpperChars[CHOOSE i \in 1..Len(LowerChars) : LowerChars[i] = c]
    ELSE c

\* str.lower()
Lower(s) == [i \in 1..Len(s) |-> LowerChar(s[i])]

\* str.capitalize(): first character upper-cased, the rest lower-cased.
Capitalize(s) == [i \in 1..Len(s) |-> IF i = 1 THEN UpperChar(s[i]) ELSE LowerChar(s[i])]

\* s[i:] of Python for 0 <= i (1-based here: the suffix starting at index i).
From(s, i) == SubSeq(s, i, Len(s))

\* str.strip(): leading and trailing whitespace removed.
Strip(s) ==
    LET keep == {i \in 1..Len(s) : ~IsSpace(s[i])}
    IN  IF keep = {} THEN <<>>
        ELSE SubSeq(s, CHOOSE i \in keep : \A j \in keep : i <= j,
                       CHOOSE i \in keep : \A j \in keep : j <= i)

\* str.startswith(p)
StartsWith(s, p) == Len(s) >= Len(p) /\ SubSeq(s, 1, Len(p)) = p

\* p occurs in s at index i.
OccursAt(s, p, i) == i + Len(p) - 1 <= Len(s) /\ SubSeq(s, i, i + Len(p) - 1) = p

\* p in s
Contains(s, p) == \E i \in 1..(Len(s) + 1) : OccursAt(s, p, i)

\* str.split(maxsplit=1) of a stripped, non-empty str: the text before the
\* first whitespace run, and (when there is one) the text after that run.
Split1(s) ==
    LET ws == {i \in 1..Len(s) : IsSpace(s[i])}
    IN  IF ws = {} THEN <<s>>
        ELSE LET first == CHOOSE i \in ws : \A j \in ws : i <= j
                 rest  == {i \in first..Len(s) : ~IsSpace(s[i])}
                 next  == CHOOSE i \in rest : \A j \in rest : i <= j
             IN  <<SubSeq(s, 1, first - 1), From(s, next)>>

\* str(n) for an int n >= 0.
RECURSIVE IntToStr(_)
IntToStr(n) ==
    LET d == <<"0", "1", "2", "3", "4", "5", "6", "7", "8", "9">>[(n % 10) + 1]
    IN  IF n < 10 THEN <<d>> ELSE Append(IntToStr(n \div 10), d)

\* format(v) inside an f-string: a str as it is, None as "None".
Str(v) == IF v = None THEN <<"N", "o", "n", "e">> ELSE v

\* ------------------------------------------------------------- messages

\* {"role": r, "content": c}
Msg(r, c) == [role |-> r, content |-> c]

\* The role strings main() writes into the history.
RoleSystem == <<"s", "y", "s", "t", "e", "m">>
RoleUser == <<"u", "s", "e", "r">>
RoleAssistant == <<"a", "s", "s", "i", "s", "t", "a", "n", "t">>

\* DEFAULT_SYSTEM (its first sentence; no operation reads into the text).
DEFAULT_SYSTEM ==
    <<"Y", "o", "u", " ", "a", "r", "e", " ", "S", "p", "o", "n", "g", "e", "B", "o", "b", ".">>

\* ------------------------------------------------------ truncate_history

\* truncate_history returning history[:2] when max_pairs <= 0.
truncate_historyKeepsTwo(history, max_pairs) ==
    IF max_pairs <= 0 THEN SubSeq(history, 1, IF Len(history) >= 2 THEN 2 ELSE Len(history))
    ELSE LET body == Tail(history)
             trimmed == IF Len(body) > 2 * max_pairs
                        THEN SubSeq(body, Len(body) - 2 * max_pairs + 1, Len(body))
                        ELSE body
         IN  <<history[1]>> \o trimmed

\* truncate_history slicing body[:2*max_pairs], the oldest messages.
truncate_historyKeepsOldest(history, max_pairs) ==
    IF max_pairs <= 0 THEN SubSeq(history, 1, 1)
    ELSE LET body == Tail(history)
             trimmed == IF Len(body) > 2 * max_pairs
                        THEN SubSeq(body, 1, 2 * max_pairs)
                        ELSE body
         IN  <<history[1]>> \o trimmed

\* truncate_history slicing body[-(2*max_pairs + 1):], one message too many.
truncate_historyKeepsOneMore(history, max_pairs) ==
    IF max_pairs <= 0 THEN SubSeq(history, 1, 1)
    ELSE LET body == Tail(history)
             trimmed == IF Len(body) > 2 * max_pairs + 1
                        THEN SubSeq(body, Len(body) - 2 * max_pairs, Len(body))
                        ELSE body
         IN  <<history[1]>> \o trimmed

\* Keep system + last N (user, assistant) pairs.
truncate_history(history, max_pairs) ==
    IF max_pairs <= 0 THEN SubSeq(history, 1, 1)
    ELSE LET body == Tail(history)
             trimmed == IF Len(body) > 2 * max_pairs
                        THEN SubSeq(body, Len(body) - 2 * max_pairs + 1, Len(body))
                        ELSE body
         IN  <<history[1]>> \o trimmed

\* --------------------------------------------------------------- call_api

\* What session.post produced: an exception (kind "exception", its message in
\* text) or a response (kind "http") with its status code, its raw text and
\* the shape of the JSON value resp.json() gives: "choice" when
\* data["choices"][0]["message"]["content"] exists (content holds it, a str or
\* None for a JSON null), "empty_object" for the JSON object {}.
Response(kind, status, text, shape, content) ==
    [kind |-> kind, status |-> status, text |-> text, shape |-> shape, content |-> content]

\* The value of the local resp before any request was made.
NoResponse == Response("none", 0, <<>>, "none", None)

\* json.dumps(data, indent=2) of the parsed body.
JsonDumps(shape) == IF shape = "empty_object" THEN <<"{", "}">> ELSE <<>>

\* The outcome of call_api: the returned content, or the message of the
\* exception that leaves it.
Returned(v) == [raised |-> FALSE, value |-> v]
Raised(msg) == [raised |-> TRUE, value |-> msg]

\* call_api raising f"HTTP {resp.status_code}" without resp.text.
call_apiNoBody(resp) ==
    IF resp.kind = "exception" THEN Raised(resp.text)
    ELSE IF resp.status # 200
    THEN Raised(<<"H", "T", "T", "P", " ">> \o IntToStr(resp.status))
    ELSE IF resp.shape = "choice" THEN Returned(resp.content)
    ELSE Raised(<<"U", "n", "e", "x", "p", "e", "c", "t", "e", "d", " ", "r", "e", "s",
                  "p", "o", "n", "s", "e", " ", "f", "o", "r", "m", "a", "t", ":", " ">>
                \o JsonDumps(resp.shape))

\* call_api from the point where session.post has produced resp.
call_api(resp) ==
    IF resp.kind = "exception" THEN Raised(resp.text)
    ELSE IF resp.status # 200
    THEN Raised(<<"H", "T", "T", "P", " ">> \o IntToStr(resp.status)
                \o <<":", " ">> \o resp.text)
    ELSE IF resp.shape = "choice" THEN Returned(resp.content)
    ELSE Raised(<<"U", "n", "e", "x", "p", "e", "c", "t", "e", "d", " ", "r", "e", "s",
                  "p", "o", "n", "s", "e", " ", "f", "o", "r", "m", "a", "t", ":", " ">>
                \o JsonDumps(resp.shape))

\* f"(Error: {e})", the content main() stores for a failed turn.
ErrorContent(msg) == <<"(", "E", "r", "r", "o", "r", ":", " ">> \o msg \o <<")">>

\* -------------------------------------------------------- save_transcript

\* An entry written with one newline, f"{role}: {content}\n".
EntrySingleNewline(m) ==
    Capitalize(m.role) \o <<":", " ">> \o Str(m.content) \o <<"\n">>

\* f"{role}: {content}\n\n" for one message.
Entry(m) ==
    Capitalize(m.role) \o <<":", " ">> \o Str(m.content) \o <<"\n", "\n">>

\* The text save_transcript writes for history.
RECURSIVE save_transcript(_)
save_transcript(history) ==
    IF history = <<>> THEN <<>>
    ELSE Entry(Head(history)) \o save_transcript(Tail(history))

\* ------------------------------------------------------------ the session

VARIABLES
    history,        \* main(): the list of messages
    system_prompt,  \* main(): args.system or DEFAULT_SYSTEM
    max_turns,      \* args.max_turns
    pc,             \* "read": at input(); "call": inside session.post;
                    \* "done": left the loop by break; "fatal": sys.exit(1);
                    \* "aborted": a KeyboardInterrupt left main() uncaught
    trimmed,        \* main(): the window last handed to call_api
    resp,           \* call_api(): what session.post last produced
    saved,          \* the text of the file save_transcript last wrote
    requests,       \* number of session.post calls made so far
    turn_base,      \* len(history) when the line of the current turn was read
    input_line,     \* the line input() returned, where one line is followed
    branch          \* the branch of the loop body that line took

vars == <<history, system_prompt, max_turns, pc, trimmed, resp, saved, requests, turn_base,
          input_line, branch>>

\* Values of --system: absent, empty, or an override.
SystemArgs == {None, <<>>, <<"B", "o", "b">>}

\* Values of --max-turns.
MaxTurnsArgs == {-1, 0, 1, 2}

\* Lines input() may return.
Lines == {
    <<>>,
    <<" ", "\t">>,
    <<"h", "i">>,
    <<" ", "b", "y", "e", " ">>,
    <<":", "h", "e", "l", "p">>,
    <<":", "r", "e", "s", "e", "t">>,
    <<" ", ":", "r", "e", "s", "e", "t">>,
    <<":", "s", "a", "v", "e">>,
    <<":", "s", "a", "v", "e", " ", "t">>,
    <<":", "q", "u", "i", "t">>,
    <<":", "Q">>,
    <<":", "e", "x", "i", "t">>,
    <<":", "n", "o", "p", "e">> }

\* What session.post may produce for a request.
Responses == {
    Response("http", 200, <<>>, "choice", <<"A", "h", "o", "y", "!">>),
    Response("http", 200, <<>>, "choice", None),
    Response("http", 200, <<"{", "}">>, "empty_object", None),
    Response("http", 500, <<"s", "e", "r", "v", "e", "r", " ", "e", "x", "p", "l", "o", "d", "e", "d">>,
             "none", None),
    Response("exception", 0, <<"t", "i", "m", "e", "d", " ", "o", "u", "t">>, "none", None) }

\* No file written yet.
NoFile == [written |-> FALSE, text |-> <<>>]

\* The file after open(path, "w") and the writes of save_transcript.
Written(text) == [written |-> TRUE, text |-> text]

\* system_prompt = args.system or DEFAULT_SYSTEM
SystemPrompt(arg) == IF arg = None \/ arg = <<>> THEN DEFAULT_SYSTEM ELSE arg

\* The command token: parts[0].lower().
Cmd(user) == Lower(Split1(user)[1])

\* The branch taken were the line tested as input() returned it, without
\* the strip of line 120.
DispatchNoStrip(line) ==
    LET user == line
    IN  IF user = <<>> THEN "empty"
        ELSE IF StartsWith(user, <<":">>)
        THEN IF Cmd(user) \in { <<":", "q", "u", "i", "t">>, <<":", "q">>,
                                <<":", "e", "x", "i", "t">> } THEN "quit"
             ELSE IF Cmd(user) = <<":", "h", "e", "l", "p">> THEN "help"
             ELSE IF Cmd(user) = <<":", "r", "e", "s", "e", "t">> THEN "reset"
             ELSE IF Cmd(user) = <<":", "s", "a", "v", "e">> THEN "save"
             ELSE "unknown"
        ELSE "chat"

\* The branch of the loop body of main() that a line takes.
Dispatch(line) ==
    LET user == Strip(line)
    IN  IF user = <<>> THEN "empty"
        ELSE IF StartsWith(user, <<":">>)
        THEN IF Cmd(user) \in { <<":", "q", "u", "i", "t">>, <<":", "q">>,
                                <<":", "e", "x", "i", "t">> } THEN "quit"
             ELSE IF Cmd(user) = <<":", "h", "e", "l", "p">> THEN "help"
             ELSE IF Cmd(user) = <<":", "r", "e", "s", "e", "t">> THEN "reset"
             ELSE IF Cmd(user) = <<":", "s", "a", "v", "e">> THEN "save"
             ELSE "unknown"
        ELSE "chat"

\* The lines of Lines by the branch they take.
EmptyLines == {line \in Lines : Dispatch(line) = "empty"}
QuitLines == {line \in Lines : Dispatch(line) = "quit"}
HelpLines == {line \in Lines : Dispatch(line) = "help"}
ResetLines == {line \in Lines : Dispatch(line) = "reset"}
SaveLines == {line \in Lines : Dispatch(line) = "save"}
UnknownLines == {line \in Lines : Dispatch(line) = "unknown"}
ChatLines == {line \in Lines : Dispatch(line) = "chat"}

\* The contents of the user messages the chat lines give: input().strip().
ChatUsers == {Strip(line) : line \in ChatLines}

\* The store after history.append({"role": "user", "content": user}).
AppendUser(h, user) == Append(h, Msg(RoleUser, user))

\* The store after history.append({"role": "assistant", "content": c}).
AppendAssistant(h, c) == Append(h, Msg(RoleAssistant, c))

\* The error entry of a failed turn left out of the store.
AppendErrorSkipped(h, msg) == h

\* The error entry of a failed turn put in the place of the user message
\* of the turn.
AppendErrorReplacesUser(h, msg) ==
    Append(SubSeq(h, 1, Len(h) - 1), Msg(RoleAssistant, ErrorContent(msg)))

\* history.append({"role": "assistant", "content": f"(Error: {e})"})
AppendError(h, msg) == AppendAssistant(h, ErrorContent(msg))

\* A reset that builds the store anew from DEFAULT_SYSTEM.
ResetHistoryToDefault(h) == <<Msg(RoleSystem, DEFAULT_SYSTEM)>>

\* A reset that keeps history[:3], the first turn.
ResetHistoryKeepsFirstTurn(h) == SubSeq(h, 1, IF Len(h) >= 3 THEN 3 ELSE Len(h))

\* history = [history[0]]
ResetHistory(h) == <<h[1]>>

Init ==
    /\ \E arg \in SystemArgs :
          /\ system_prompt = SystemPrompt(arg)
          /\ history = <<Msg(RoleSystem, SystemPrompt(arg))>>
    /\ max_turns \in MaxTurnsArgs
    /\ pc = "read"
    /\ trimmed = <<>>
    /\ resp = NoResponse
    /\ saved = NoFile
    /\ requests = 0
    /\ turn_base = 0
    /\ input_line = <<>>
    /\ branch = "none"

\* input() raises EOFError or KeyboardInterrupt: "Bye!" and break.
Eof ==
    /\ pc = "read"
    /\ pc' = "done"
    /\ UNCHANGED <<input_line, branch, history, system_prompt, max_turns, trimmed, resp, saved, requests, turn_base>>

\* if not user: continue
EmptyLine ==
    /\ pc = "read"
    /\ EmptyLines # {}
    /\ UNCHANGED vars

\* :quit, :q, :exit: "Bye!" and break.
Quit ==
    /\ pc = "read"
    /\ QuitLines # {}
    /\ pc' = "done"
    /\ UNCHANGED <<input_line, branch, history, system_prompt, max_turns, trimmed, resp, saved, requests, turn_base>>

\* :help: the command reference is printed.
Help ==
    /\ pc = "read"
    /\ HelpLines # {}
    /\ UNCHANGED vars

\* :reset
Reset ==
    /\ pc = "read"
    /\ ResetLines # {}
    /\ history' = ResetHistory(history)
    /\ UNCHANGED <<input_line, branch, system_prompt, max_turns, pc, trimmed, resp, saved, requests, turn_base>>

\* :save [path], the transcript written.
Save ==
    /\ pc = "read"
    /\ SaveLines # {}
    /\ UNCHANGED <<input_line, branch, history, system_prompt, max_turns, pc, trimmed, resp, requests, turn_base>>
    /\ saved' = Written(save_transcript(history))

\* A failed save handled like a failed call: the error appended as an
\* assistant message and the loop going on.
SaveFailAbsorbed ==
    /\ pc = "read"
    /\ SaveLines # {}
    /\ history' = AppendError(history, <<"d", "i", "s", "k", " ", "f", "u", "l", "l">>)
    /\ UNCHANGED <<input_line, branch, system_prompt, max_turns, pc, trimmed, resp, saved, requests, turn_base>>

\* :save [path], mkdir or open raising OSError: caught at the bottom of
\* main(), "Fatal error" and sys.exit(1).
SaveFail ==
    /\ pc = "read"
    /\ SaveLines # {}
    /\ pc' = "fatal"
    /\ UNCHANGED <<input_line, branch, history, system_prompt, max_turns, trimmed, resp, saved, requests, turn_base>>

\* An unknown command without the continue that ends the command branch:
\* the line goes on into the chat turn.
UnknownFallsThrough ==
    /\ pc = "read"
    /\ requests < MaxRequests
    /\ \E user \in {Strip(line) : line \in UnknownLines} :
          /\ history' = AppendUser(history, user)
          /\ trimmed' = truncate_history(AppendUser(history, user), max_turns)
    /\ turn_base' = Len(history)
    /\ requests' = requests + 1
    /\ pc' = "call"
    /\ UNCHANGED <<input_line, branch, system_prompt, max_turns, resp, saved>>

\* Any other line starting with ":": "Unknown command" is printed.
Unknown ==
    /\ pc = "read"
    /\ UnknownLines # {}
    /\ UNCHANGED vars

\* A chat turn that keeps the window as the store:
\* history = truncate_history(history, args.max_turns).
ChatSendTrimsStore ==
    /\ pc = "read"
    /\ requests < MaxRequests
    /\ \E user \in ChatUsers :
          /\ history' = truncate_history(AppendUser(history, user), max_turns)
          /\ trimmed' = truncate_history(AppendUser(history, user), max_turns)
    /\ turn_base' = Len(history)
    /\ requests' = requests + 1
    /\ pc' = "call"
    /\ UNCHANGED <<input_line, branch, system_prompt, max_turns, resp, saved>>

\* A chat turn that computes the window before appending the user message.
ChatSendTruncatesFirst ==
    /\ pc = "read"
    /\ requests < MaxRequests
    /\ \E user \in ChatUsers :
          /\ history' = AppendUser(history, user)
          /\ trimmed' = truncate_history(history, max_turns)
    /\ turn_base' = Len(history)
    /\ requests' = requests + 1
    /\ pc' = "call"
    /\ UNCHANGED <<input_line, branch, system_prompt, max_turns, resp, saved>>

\* Normal chat turn, up to the request being sent.
ChatSend ==
    /\ pc = "read"
    /\ requests < MaxRequests
    /\ \E user \in ChatUsers :
          /\ history' = AppendUser(history, user)
          /\ trimmed' = truncate_history(AppendUser(history, user), max_turns)
    /\ turn_base' = Len(history)
    /\ requests' = requests + 1
    /\ pc' = "call"
    /\ UNCHANGED <<input_line, branch, system_prompt, max_turns, resp, saved>>

\* call_api returns: the reply is printed and appended.
ChatReply ==
    /\ pc = "call"
    /\ \E r \in Responses :
          /\ ~call_api(r).raised
          /\ resp' = r
          /\ history' = AppendAssistant(history, call_api(r).value)
    /\ pc' = "read"
    /\ UNCHANGED <<input_line, branch, system_prompt, max_turns, trimmed, saved, requests, turn_base>>

\* A failed call tried again: a second session.post for the same turn.
ChatErrorRetries ==
    /\ pc = "call"
    /\ requests < MaxRequests
    /\ \E r \in Responses :
          /\ call_api(r).raised
          /\ resp' = r
    /\ requests' = requests + 1
    /\ UNCHANGED <<input_line, branch, history, system_prompt, max_turns, pc, trimmed, saved, turn_base>>

\* A failed call without the try of the chat turn: the error reaches the
\* except at the bottom of main().
ChatErrorFatal ==
    /\ pc = "call"
    /\ \E r \in Responses :
          /\ call_api(r).raised
          /\ resp' = r
    /\ pc' = "fatal"
    /\ UNCHANGED <<input_line, branch, history, system_prompt, max_turns, trimmed, saved, requests, turn_base>>

\* call_api raises: the error is printed and appended as an assistant message.
ChatError ==
    /\ pc = "call"
    /\ \E r \in Responses :
          /\ call_api(r).raised
          /\ resp' = r
          /\ history' = AppendError(history, call_api(r).value)
    /\ pc' = "read"
    /\ UNCHANGED <<input_line, branch, system_prompt, max_turns, trimmed, saved, requests, turn_base>>

\* KeyboardInterrupt during session.post: not an Exception, so neither
\* except clause of main() catches it.
Interrupt ==
    /\ pc = "call"
    /\ pc' = "aborted"
    /\ UNCHANGED <<input_line, branch, history, system_prompt, max_turns, trimmed, resp, saved, requests, turn_base>>

Next ==
    \/ Eof \/ EmptyLine \/ Quit \/ Help \/ Reset \/ Save \/ SaveFail \/ Unknown
    \/ ChatSend \/ ChatReply \/ ChatError \/ Interrupt

Spec == Init /\ [][Next]_vars

\* ------------------------------------------- truncate_history on its own

\* Contents of the messages of the histories tried.
TruncContents == { <<"h", "i">>, <<"b", "y", "e">> }

\* The bodies of n messages, user first, roles alternating.
TruncBodies(n) ==
    { [i \in 1..n |-> Msg(IF i % 2 = 1 THEN RoleUser ELSE RoleAssistant, f[i])] :
        f \in [1..n -> TruncContents] }

\* The histories tried: the system message, then a body of up to MaxBody.
TruncHistories ==
    UNION { { <<Msg(RoleSystem, DEFAULT_SYSTEM)>> \o b : b \in TruncBodies(n) } : n \in 0..MaxBody }

TruncInit ==
    /\ history \in TruncHistories
    /\ max_turns \in (-MaxPairs)..MaxPairs
    /\ system_prompt = DEFAULT_SYSTEM
    /\ pc = "read"
    /\ trimmed = <<>>
    /\ resp = NoResponse
    /\ saved = NoFile
    /\ requests = 0
    /\ turn_base = 0
    /\ input_line = <<>>
    /\ branch = "none"

\* trimmed = truncate_history(history, args.max_turns)
Truncate ==
    /\ pc = "read"
    /\ trimmed' = truncate_history(history, max_turns)
    /\ pc' = "done"
    /\ UNCHANGED <<input_line, branch, history, system_prompt, max_turns, resp, saved, requests, turn_base>>

TruncNext == Truncate

SpecTrunc == TruncInit /\ [][TruncNext]_vars

\* -------------------------------------------- save_transcript on its own

\* Contents of user messages: one stripped, non-empty input line.
SaveUserContents == {
    <<"h", "i">>,
    <<"A", "s", "s", "i", "s", "t", "a", "n", "t", ":", " ", "b">> }

\* Contents of assistant messages: replies of the remote, or None.
SaveAssistantContents == {
    <<"A", "h", "o", "y", "!">>,
    <<"a", "\n", "b">>,
    <<"U", "s", "e", "r", ":", " ", "b">>,
    <<"a", "\n", "\n", "U", "s", "e", "r", ":", " ", "b">>,
    <<"a", "\n">>,
    <<"\n", "b">>,
    <<>>,
    None }

\* The bodies of n messages, user first, roles alternating.
SaveBodies(n) ==
    { [i \in 1..n |-> Msg(IF i % 2 = 1 THEN RoleUser ELSE RoleAssistant, f[i])] :
        f \in { g \in [1..n -> SaveUserContents \cup SaveAssistantContents] :
                  \A i \in 1..n : g[i] \in (IF i % 2 = 1 THEN SaveUserContents
                                                       ELSE SaveAssistantContents) } }

\* The stores tried: the system message, then a body of up to MaxSaved.
SaveStores ==
    UNION { { <<Msg(RoleSystem, SystemPrompt(arg))>> \o b : b \in SaveBodies(n), arg \in SystemArgs } :
              n \in 0..MaxSaved }

SaveInit ==
    /\ history \in SaveStores
    /\ system_prompt = history[1].content
    /\ max_turns = 0
    /\ pc = "read"
    /\ trimmed = <<>>
    /\ resp = NoResponse
    /\ saved = NoFile
    /\ requests = 0
    /\ turn_base = 0
    /\ input_line = <<>>
    /\ branch = "none"

SaveNext == Save

SpecSave == SaveInit /\ [][SaveNext]_vars

\* ------------------------------------------------- reading a transcript

\* ------------------------------------------ the dispatch of a line on its own

\* The characters of the lines tried.
LineChars == {" ", ":", "q", "Q", "h"}

\* The lines tried: those of the session and every line of up to MaxLine
\* characters of LineChars.
DispatchLines == Lines \cup UNION {[1..n -> LineChars] : n \in 0..MaxLine}

DispatchInit ==
    /\ input_line \in DispatchLines
    /\ branch = "none"
    /\ system_prompt = DEFAULT_SYSTEM
    /\ history = <<Msg(RoleSystem, DEFAULT_SYSTEM)>>
    /\ max_turns = 1
    /\ pc = "read"
    /\ trimmed = <<>>
    /\ resp = NoResponse
    /\ saved = NoFile
    /\ requests = 0
    /\ turn_base = 0

\* The line goes through the tests of the loop body.
DispatchLine ==
    /\ branch = "none"
    /\ branch' = Dispatch(input_line)
    /\ UNCHANGED <<input_line, history, system_prompt, max_turns, pc, trimmed, resp, saved,
                   requests, turn_base>>

DispatchNext == DispatchLine

SpecDispatch == DispatchInit /\ [][DispatchNext]_vars

\* The reader the round-trip property supposes: entries are separated by
\* blank lines; an entry is a role label, ": ", and the content.
NewlineNewline == <<"\n", "\n">>
ColonSpace == <<":", " ">>

\* The first index at which p occurs in s, or 0.
Find(s, p) ==
    LET hits == {i \in 1..Len(s) : OccursAt(s, p, i)}
    IN  IF hits = {} THEN 0 ELSE CHOOSE i \in hits : \A j \in hits : i <= j

\* One entry: the lower-cased label before the first ": ", the text after it.
ParseEntry(e) ==
    LET j == Find(e, ColonSpace)
    IN  IF j = 0 THEN [role |-> <<>>, content |-> e]
        ELSE [role |-> Lower(SubSeq(e, 1, j - 1)), content |-> From(e, j + 2)]

\* The role/content pairs of a transcript text.
RECURSIVE ParseTranscript(_)
ParseTranscript(text) ==
    IF text = <<>> THEN <<>>
    ELSE LET i == Find(text, NewlineNewline)
         IN  IF i = 0 THEN <<ParseEntry(text)>>
             ELSE <<ParseEntry(SubSeq(text, 1, i - 1))>> \o ParseTranscript(From(text, i + 2))

\* The role/content pairs of a store, contents as save_transcript formats them.
Pairs(h) == [i \in 1..Len(h) |-> [role |-> h[i].role, content |-> Str(h[i].content)]]

\* ------------------------------------------------------------------ claims

Min(a, b) == IF a <= b THEN a ELSE b

\* The last n elements of s.
LastN(s, n) == SubSeq(s, Len(s) - n + 1, Len(s))

\* s ends with p.
EndsWith(s, p) == Len(s) >= Len(p) /\ LastN(s, Len(p)) = p

\* A response the claims call a failed remote call: a timeout (an exception of
\* session.post), a non-success status, or a success body without a reply.
Failed(r) == r.kind = "exception" \/ r.status # 200 \/ r.shape # "choice"

\* C1: for max_pairs <= 0, truncate_history returns exactly the one-element
\* sequence holding the system message, however many messages follow it.
C1_NonPositiveKeepsOnlySystem ==
    (pc = "done" /\ max_turns <= 0) =>
        (Len(trimmed) = 1 /\ trimmed[1] = history[1] /\ trimmed[1].role = RoleSystem)

C1_Witness ==
    pc = "done" /\ max_turns < 0 /\ Len(history) = 1 + MaxBody /\ trimmed = <<history[1]>>

\* C2: for max_pairs = k > 0 and n messages after the system message,
\* truncate_history returns the system message followed by exactly
\* min(n, 2k) non-system messages: the last min(n, 2k) of the history, in
\* their original order.
C2_KeepsLastMessagesInOrder ==
    (pc = "done" /\ max_turns > 0) =>
        LET n == Len(history) - 1
            c == Min(n, 2 * max_turns)
        IN  /\ Len(trimmed) = 1 + c
            /\ trimmed[1] = history[1]
            /\ \A i \in 1..c : /\ trimmed[1 + i] = history[Len(history) - c + i]
                               /\ trimmed[1 + i].role # RoleSystem

C2_Witness ==
    /\ pc = "done" /\ max_turns = 1 /\ Len(history) = 5
    /\ history[4].content # history[2].content
    /\ history[5].content # history[3].content
    /\ trimmed = <<history[1], history[4], history[5]>>

\* C3: in every reachable state of the session the store is non-empty, its
\* first element has role system and the content configured at session
\* start, and no other element has role system.
C3_SystemMessageFirstAndOnly ==
    /\ Len(history) >= 1
    /\ history[1] = Msg(RoleSystem, system_prompt)
    /\ \A i \in 2..Len(history) : history[i].role # RoleSystem

C3_Witness ==
    /\ pc = "read" /\ requests = 2 /\ Len(history) = 3
    /\ system_prompt # DEFAULT_SYSTEM
    /\ Failed(resp)
    /\ history[1] = Msg(RoleSystem, system_prompt)

\* C4: whatever came before, the reset command leaves the store with exactly
\* one message, whose content is the original system message content.
C4_ResetLeavesSystemOnly ==
    [][Reset => (Len(history') = 1 /\ history'[1].content = system_prompt)]_vars

C4_Witness ==
    pc = "read" /\ requests = 2 /\ Len(history) = 1 /\ history[1].content = system_prompt

\* C5: a chat turn whose remote call fails (a timeout, a non-success status,
\* a success body without a reply) does not end the loop: once the failure
\* is handled the loop is back at reading a line and the store has grown by
\* exactly 2 since the line was read (the user message, then an assistant
\* message carrying the error text), the earlier messages being kept.
C5_FailedTurnAppendsTwoAndContinues ==
    [][(pc = "call" /\ pc' \notin {"call", "aborted"} /\ Failed(resp')) =>
          /\ pc' = "read"
          /\ Len(history') = turn_base + 2
          /\ SubSeq(history', 1, turn_base + 1) = history
          /\ history'[turn_base + 1].role = RoleUser
          /\ history'[turn_base + 2].role = RoleAssistant
          /\ Contains(history'[turn_base + 2].content, call_api(resp').value)
          /\ StartsWith(history'[turn_base + 2].content, <<"(", "E", "r", "r", "o", "r">>)
      ]_vars

C5_Witness ==
    /\ pc = "read" /\ Len(history) = 5 /\ turn_base = 3
    /\ resp.kind = "exception"
    /\ Contains(history[5].content, resp.text)
    /\ Contains(history[3].content, <<"U", "n", "e", "x", "p", "e", "c", "t", "e", "d">>)

C7_HttpErrorTextInStore ==
    [][(pc = "call" /\ pc' = "read" /\ resp'.kind = "http" /\ resp'.status # 200) =>
          /\ Len(history') = Len(history) + 1
          /\ history'[Len(history')].role = RoleAssistant
          /\ Contains(history'[Len(history')].content, IntToStr(resp'.status))
          /\ Contains(history'[Len(history')].content, resp'.text)
      ]_vars

C7_Witness ==
    /\ pc = "read" /\ Len(history) = 5 /\ resp.status = 200
    /\ history[3].content =
          <<"(", "E", "r", "r", "o", "r", ":", " ", "H", "T", "T", "P", " ", "5", "0", "0", ":", " ",
            "s", "e", "r", "v", "e", "r", " ", "e", "x", "p", "l", "o", "d", "e", "d", ")">>
    /\ history[5] = Msg(RoleAssistant, <<"A", "h", "o", "y", "!">>)

\* C8: an empty or whitespace-only line, help, save and an unknown command
\* leave the store as it was and make no network request.
C8_OtherLinesLeaveStoreAlone ==
    [][(EmptyLine \/ Help \/ Save \/ SaveFail \/ Unknown) =>
          (history' = history /\ requests' = requests /\ trimmed' = trimmed /\ resp' = resp
           /\ pc' # "call")]_vars

C8_Witness ==
    /\ pc = "read" /\ Len(history) = 5 /\ requests = 2
    /\ saved # NoFile /\ saved.text = save_transcript(history)

\* C9 as stated: saving any store and parsing the written text back gives
\* the store's role/content pairs, also when a content holds blank lines.
C9_RoundTripAnyContent ==
    saved # NoFile => ParseTranscript(saved.text) = Pairs(history)

\* A content the reader takes apart: it holds a blank line or ends a line.
Splits(c) == Contains(c, NewlineNewline) \/ EndsWith(c, <<"\n">>)

\* C9 (amended): for a store of m messages none of whose contents, as
\* written, holds a blank line or ends with a newline, parsing the saved
\* text gives exactly the m role/content pairs of the store, in order.
C9_RoundTripWithoutBlankLines ==
    (saved # NoFile /\ \A i \in 1..Len(history) : ~Splits(Str(history[i].content))) =>
        /\ Len(ParseTranscript(saved.text)) = Len(history)
        /\ ParseTranscript(saved.text) = Pairs(history)

C9_Witness ==
    /\ saved # NoFile /\ Len(history) = 4
    /\ history[2].content = <<"A", "s", "s", "i", "s", "t", "a", "n", "t", ":", " ", "b">>
    /\ history[3].content = <<"a", "\n", "b">>
    /\ ParseTranscript(saved.text) = Pairs(history)

\* C10 as stated: with max_turns = N >= 1 the window of a chat turn is the
\* system message, the last N prior (user, assistant) pairs of the store
\* (all of them when fewer than N exist), and the user message of the turn.
C10_WindowHoldsLastNPriorPairs ==
    (pc = "call" /\ max_turns >= 1) =>
        LET prior == SubSeq(history, 2, turn_base)
            keep == Min(max_turns, Len(prior) \div 2)
        IN  trimmed = <<history[1]>> \o LastN(prior, 2 * keep) \o <<history[Len(history)]>>

\* ------------------------------------------------------- the requests sent

Max(a, b) == IF a >= b THEN a ELSE b

\* C11: every request sent carries a message sequence whose first element is
\* the system message of the session, that holds no other system message,
\* and whose length is at most 1 + 2 * max(max_turns, 0), however long the
\* store has grown.
C11_RequestWindowBounded ==
    pc = "call" =>
        /\ Len(trimmed) >= 1
        /\ trimmed[1] = Msg(RoleSystem, system_prompt)
        /\ \A i \in 2..Len(trimmed) : trimmed[i].role # RoleSystem
        /\ Len(trimmed) <= 1 + 2 * Max(max_turns, 0)

C11_Witness ==
    /\ pc = "call" /\ max_turns = 1
    /\ Len(history) = 4 /\ Len(trimmed) = 3
    /\ system_prompt = <<"B", "o", "b">>

\* A step that enters a chat turn: it appends a user message to the store.
TurnEntered ==
    /\ Len(history') = Len(history) + 1
    /\ history'[Len(history')].role = RoleUser

\* C12: the number of requests issued equals the number of chat turns
\* entered: the step that enters a chat turn issues exactly one request,
\* and no other step (a reply, a failure, a command, an empty line, the end
\* of the session) issues any.
C12_OneRequestPerChatTurn ==
    [][requests' = (IF TurnEntered THEN requests + 1 ELSE requests)]_vars

C12_Witness ==
    /\ pc = "done" /\ requests = 2 /\ Len(history) = 5
    /\ Failed(resp) /\ ~StartsWith(Str(history[3].content), <<"(", "E", "r", "r", "o", "r">>)
    /\ saved.written

\* A response call_api is to return a reply for: success status and a body
\* whose first choice has a message whose content is a string.
WellFormed(r) ==
    r.kind = "http" /\ r.status = 200 /\ r.shape = "choice" /\ r.content # None

\* C13 as stated: the turn appends the reply as a normal assistant message
\* only for a response with success status whose first choice has a string
\* content; for every other status or body (content null among them) the
\* call fails and what the store gets is the "(Error: ...)" entry.
C13_OnlyStringContentIsAReply ==
    [][(pc = "call" /\ pc' = "read") =>
          IF WellFormed(resp')
          THEN history' = AppendAssistant(history, resp'.content)
          ELSE /\ call_api(resp').raised
               /\ Len(history') = Len(history) + 1
               /\ StartsWith(Str(history'[Len(history')].content),
                             <<"(", "E", "r", "r", "o", "r", ":", " ">>)]_vars

\* ------------------------------------------------------ the end of the loop

\* The loop has been left: break, sys.exit(1), or an uncaught interrupt.
Ended == pc \in {"done", "fatal", "aborted"}

\* What C14 says of the steps that do not end the loop, and of quit and EOF:
\* quit and EOF end the loop with no error exit, no change of the store and
\* no request; a failed save is fatal; every other line, and the end of a
\* chat turn either way, goes back to reading; once left, the loop is over.
LoopContinues ==
    /\ (Quit \/ Eof) =>
          pc' = "done" /\ history' = history /\ requests' = requests /\ saved' = saved
    /\ SaveFail => pc' = "fatal"
    /\ (EmptyLine \/ Help \/ Reset \/ Save \/ Unknown) => pc' = "read"
    /\ ChatSend => pc' = "call"
    /\ (ChatReply \/ ChatError) => pc' = "read"
    /\ Ended => UNCHANGED vars

C15_SaveFailureIsFatal ==
    [][/\ SaveFail => (pc' = "fatal" /\ history' = history /\ requests' = requests)
       /\ pc = "fatal" => UNCHANGED vars]_vars

C15_Witness ==
    /\ pc = "fatal" /\ ~saved.written
    /\ requests = 1 /\ Len(history) = 3

\* ------------------------------------------------ the classes of a line

\* The branches of the command block.
CommandBranches == {"quit", "help", "reset", "save", "unknown"}

\* The line holds nothing but whitespace.
Blank(l) == \A i \in 1..Len(l) : IsSpace(l[i])

\* The first character of the line that is not whitespace is c.
FirstTextIs(l, c) ==
    \E i \in 1..Len(l) : l[i] = c /\ \A j \in 1..(i - 1) : IsSpace(l[j])

\* C16 as stated: the class of a line comes from a prefix test on the line:
\* a line starting with ":" is a command; otherwise an empty or
\* whitespace-only line is ignored; otherwise the line is a chat turn, so a
\* line with whitespace before ":" is never dispatched as a command.
C16_ClassifiedByPrefixOfLine ==
    branch # "none" =>
        /\ (branch \in CommandBranches) = StartsWith(input_line, <<":">>)
        /\ (branch = "empty") = (~StartsWith(input_line, <<":">>) /\ Blank(input_line))
        /\ (branch = "chat") = (~StartsWith(input_line, <<":">>) /\ ~Blank(input_line))

\* C16 (amended): the class of a line comes from a prefix test on the line
\* with the whitespace at its ends taken off: empty or whitespace-only, it
\* is ignored; with ":" as its first non-whitespace character, it is a
\* command; otherwise it is a chat turn.
C16_ClassifiedByPrefixOfStrippedLine ==
    branch # "none" =>
        /\ (branch \in CommandBranches) = FirstTextIs(input_line, ":")
        /\ (branch = "empty") = Blank(input_line)
        /\ (branch = "chat") = (~Blank(input_line) /\ ~FirstTextIs(input_line, ":"))

C16_Witness ==
    /\ input_line = <<" ", ":", "r", "e", "s", "e", "t">>
    /\ branch = "reset"

\* -------------------------------------------------------- the store kept

\* s is a prefix of t.
IsPrefix(s, t) == Len(s) <= Len(t) /\ SubSeq(t, 1, Len(s)) = s

\* C17: the store is append-only between resets: at every step other than a
\* reset the store before the step is a prefix of the store after it, so
\* its length never decreases and no entry is rewritten, reordered or
\* removed.
C17_AppendOnlyBetweenResets ==
    [][Reset \/ IsPrefix(history, history')]_vars

C17_Witness ==
    /\ pc = "read" /\ max_turns = 0
    /\ Len(history) = 5 /\ trimmed = <<history[1]>>
    /\ StartsWith(Str(history[5].content), <<"(", "E", "r", "r", "o", "r">>)

\* C18: computing the window never changes the store: the messages left out
\* of the window of a chat turn stay in the store, and a later save writes
\* the entries of every message of the whole store, in store order, not
\* those of the window.
C18_WindowLeavesStoreWhole ==
    [][/\ (pc = "read" /\ pc' = "call") =>
             /\ Len(history') = Len(history) + 1
             /\ IsPrefix(history, history')
             /\ trimmed' = <<history'[1]>> \o LastN(history', Len(trimmed') - 1)
       /\ saved' # saved =>
             /\ history' = history
             /\ saved'.text = save_transcript(history)
             /\ Len(trimmed) < Len(history) => saved'.text # save_transcript(trimmed)]_vars

C18_Witness ==
    /\ max_turns = 1 /\ Len(history) = 5 /\ Len(trimmed) = 3
    /\ saved.written /\ saved.text = save_transcript(history)

\* The roles after the system message alternate user, assistant, and the
\* last message is an assistant message.
Alternates(h) ==
    /\ Len(h) % 2 = 1
    /\ h[1].role = RoleSystem
    /\ \A i \in 2..Len(h) :
          h[i].role = (IF i % 2 = 0 THEN RoleUser ELSE RoleAssistant)

\* The chat turns a store holds: t for a store of 1 + 2t messages, and for
\* one of 1 + 2t + 1, the user message of a turn under way not counted.
Turns(h) == (Len(h) - 1) \div 2

\* C19: whenever the loop is about to read a line the store has odd length
\* 1 + 2t, t the number of chat turns completed since the start of the
\* session or the last reset, and the roles after index 0 alternate user,
\* assistant, starting with a user and ending with an assistant message,
\* the error entry of a failed turn counting as the assistant message.
C19_OddAlternatingStoreAtRead ==
    /\ [](pc = "read" => Alternates(history))
    /\ [][pc' = "read" =>
             Turns(history') = (IF pc = "call" THEN Turns(history) + 1
                                ELSE IF Reset THEN 0
                                ELSE Turns(history))]_vars

C19_Witness ==
    /\ pc = "read" /\ requests = 2 /\ max_turns = 2
    /\ Len(history) = 3 /\ turn_base = 1
    /\ history[3].content = ErrorContent(call_api(resp).value)

\* C20: on a chat turn with max_turns >= 1 the last message of the window
\* submitted is the user message entered in that turn; with max_turns <= 0
\* the window is the system message alone, so the user's input is not part
\* of the request although it is appended to the store.
C20_WindowEndsWithUserMessageOfTurn ==
    pc = "call" =>
        /\ Len(history) = turn_base + 1
        /\ history[Len(history)].role = RoleUser
        /\ max_turns >= 1 => trimmed[Len(trimmed)] = history[Len(history)]
        /\ max_turns <= 0 =>
              /\ trimmed = <<history[1]>>
              /\ \A i \in 1..Len(trimmed) : trimmed[i].role # RoleUser

C20_Witness ==
    /\ pc = "call" /\ max_turns = -1
    /\ Len(history) = 4 /\ history[4].role = RoleUser
    /\ trimmed = <<Msg(RoleSystem, system_prompt)>>

====
